---- MODULE Spec2Model ----
(***************************************************************************)
(* A model of pdf_costructor.py: the three document generators             *)
(* (generate_contratto_pdf, generate_garanzia_pdf, generate_carta_pdf),    *)
(* the template selector fix_html_layout, the payment calculator           *)
(* monthly_payment and the overlay compositor _generate_pdf_with_images.   *)
(*                                                                         *)
(* Representation.                                                         *)
(*  - The content of the file <name>.html is identified with <name>.       *)
(*  - A PDF is the sequence of its pages; a page records the index it had  *)
(*    in the base document, whether merge_page was called on it and what   *)
(*    was merged onto it.                                                  *)
(*  - Lengths are integers in units of 1/70 mm, so that both cell sizes    *)
(*    (210/25 mm, 297/35 mm) and half rows (row 15.5) are whole numbers.   *)
(*  - Money results are integers in cents.                                 *)
(*  - The image sizes (pixel size * 0.264583 * scale) and the cosmetic     *)
(*    grid markup added to the HTML play no part in page order, merging    *)
(*    or error handling and are left out.                                  *)
(***************************************************************************)
EXTENDS Integers, Sequences, FiniteSets, TLC

VARIABLES
  templates,        \* names n such that the file n.html exists
  images,           \* image files that open and draw without error
  pc,               \* position of the running call
  api,              \* the function the caller invoked
  data,             \* the caller's dict, as it is now
  data_before,      \* the caller's dict as it was when the call began
  html,             \* argument html of _generate_pdf_with_images
  template_name,    \* argument template_name of _generate_pdf_with_images
  render,           \* "none", "ok" or "failed": what write_pdf did
  pdf_bytes,        \* the base document
  overlay_buffers,  \* one drawing surface per base page: the set of images drawn
  attempted,        \* image files whose Image.open(...) line was executed
  outcome,          \* "none", "returned" or "raised"
  error,            \* the exception that reached the caller, or "none"
  final_buf,        \* <<>>: nothing returned; <<doc>>: the returned document
  args,             \* arguments of a direct call of a pure function
  ret               \* its result

vars == <<templates, images, pc, api, data, data_before, html, template_name,
          render, pdf_bytes, overlay_buffers, attempted, outcome, error,
          final_buf, args, ret>>

callvars == <<api, data, data_before, html, template_name, render, pdf_bytes,
              overlay_buffers, attempted, outcome, error, final_buf>>

(***************************************************************************)
(* Bounds of the model.                                                    *)
(***************************************************************************)
MaxPages == 4

MaxAmount == 16

MaxMonthExp == 3

(***************************************************************************)
(* monthly_payment                                                         *)
(***************************************************************************)
RECURSIVE Pow(_, _)
Pow(b, e) == IF e = 0 THEN 1 ELSE b * Pow(b, e - 1)

\* Python's round(num / den, 2), in cents, for num >= 0 and den > 0.  round()
\* rounds the double to the nearest value with two decimals and resolves an
\* exact tie to the even digit.  The inputs drawn below keep num / den either
\* exactly representable as a double (den a power of two) or away from any tie.
round2(num, den) ==
  LET q == (100 * num) \div den
      rem == (100 * num) % den
  IN IF 2 * rem < den THEN q
     ELSE IF 2 * rem > den THEN q + 1
     ELSE IF q % 2 = 0 THEN q ELSE q + 1

\* annual_rate is a multiple of 1200, for which r = (annual_rate / 100) / 12
\* is an exact integer-valued double.
monthly_payment(amount, months, annual_rate) ==
  LET r == annual_rate \div 1200
  IN IF r = 0
     THEN round2(amount, months)
     ELSE round2(amount * r * Pow(1 + r, months), Pow(1 + r, months) - 1)

Months == {Pow(2, k) : k \in 0..MaxMonthExp}

Rates == {0, 1200}

(***************************************************************************)
(* fix_html_layout                                                         *)
(***************************************************************************)
TemplateNames == {"contrato", "contratto", "garanzia", "carta", "altro"}

TemplateFiles == {"contrato", "contratto", "garanzia", "carta"}

\* open(html_file).read()
ReadFile(html_file, files) ==
  IF html_file \in files
  THEN [exc |-> "none", text |-> html_file]
  ELSE [exc |-> "FileNotFoundError", text |-> ""]

AltName_DefaultTemplate(name) ==
  IF name = "contratto" THEN "contrato" ELSE "contratto"

AltName(name) ==
  IF name = "contratto" THEN "contrato"
  ELSE IF name = "contrato" THEN "contratto"
  ELSE name

fix_html_layout(name, files) ==
  LET first == ReadFile(name, files)
  IN IF first.exc = "none" THEN first ELSE ReadFile(AltName(name), files)

(***************************************************************************)
(* The 25 x 35 grid and the placement coordinates                          *)
(***************************************************************************)
\* Units per millimetre: 2 (half rows) times 35 (the row count).
PerMm == 2 * 35

GRID_COLS == 25

GRID_ROWS == 35

page_w_mm == 210 * PerMm

page_h_mm == 297 * PerMm

cell_w_mm == page_w_mm \div GRID_COLS

cell_h_mm == page_h_mm \div GRID_ROWS

\* Rows are given in half rows, so that SING1_ROW = 15.5 is the integer 31.
LOGO_COL == 14

LOGO_ROW == 2 * 8

SING1_COL == 14

SING1_ROW == 31

\* x = (COL - 1) * cell_w_mm
CellX(col) == (col - 1) * cell_w_mm

CellY_FromRowTop(row2) == page_h_mm - ((row2 - 2) * cell_h_mm) \div 2

\* y = page_h_mm - ROW * cell_h_mm, ROW = row2 / 2
CellY(row2) == page_h_mm - (row2 * cell_h_mm) \div 2

\* reportlab's mm is 72 / 25.4 = 360 / 127 points: v * _mm is the rational
\* (v * mm_num) / (PerMm * mm_den) points, kept as its numerator.
mm_num == 360

mm_den == 127

ToPoints(v) == v * mm_num

Placement(image, col, row2) ==
  [image |-> image, x |-> ToPoints(CellX(col)), y |-> ToPoints(CellY(row2))]

(***************************************************************************)
(* _generate_pdf_with_images: the pieces                                   *)
(***************************************************************************)
ImageFiles == {"logo.png", "sing_1.png"}

\* HTML(string=html).write_pdf(...): a document of n pages
BasePdf(h, n) ==
  [i \in 1..n |-> [html |-> h, base |-> i, merged |-> FALSE, overlay |-> {}]]

IsOverlayVariant_AllButGaranzia(name) == name # "garanzia"

\* template_name in ('contrato', 'contratto')
IsOverlayVariant(name) == name \in {"contrato", "contratto"}

\* one empty canvas per base page
NewOverlayBuffers(base) == [i \in 1..Len(base) |-> {}]

except_Exception_IndexErrorOnly(exc) == exc = "IndexError"

\* except Exception as e: print(...)   (the handlers of the two placements)
except_Exception(exc) == exc \in {"OSError", "IndexError"}

\* The body of the try block of logo.png.  Page 1 of the document is
\* overlay_buffers[0] in the code and buffers[1] here.
LogoTry(buffers, imgs) ==
  IF "logo.png" \notin imgs THEN [exc |-> "OSError", buffers |-> buffers]
  ELSE IF Len(buffers) < 1 THEN [exc |-> "IndexError", buffers |-> buffers]
  ELSE [exc |-> "none",
        buffers |-> [buffers EXCEPT
                       ![1] = @ \cup {Placement("logo.png", LOGO_COL, LOGO_ROW)}]]

HasThirdPage_OffByOne(buffers) == Len(buffers) >= 2

\* len(overlay_buffers) >= 3
HasThirdPage(buffers) == Len(buffers) >= 3

\* The body of the try block of sing_1.png.
Sing1Try(buffers, imgs) ==
  IF ~HasThirdPage(buffers) THEN [exc |-> "none", opened |-> FALSE, buffers |-> buffers]
  ELSE IF "sing_1.png" \notin imgs
       THEN [exc |-> "OSError", opened |-> TRUE, buffers |-> buffers]
  ELSE IF Len(buffers) < 3
       THEN [exc |-> "IndexError", opened |-> TRUE, buffers |-> buffers]
  ELSE [exc |-> "none", opened |-> TRUE,
        buffers |-> [buffers EXCEPT
                       ![3] = @ \cup {Placement("sing_1.png", SING1_COL, SING1_ROW)}]]

SaveCanvas_AlwaysShowPage(content) == 1

\* c.save(); PdfReader(buf): a canvas nothing was drawn on saves a document
\* without pages, any other a document of one page.
SaveCanvas(content) == IF content = {} THEN 0 ELSE 1

OverlayReaders(buffers) == [i \in 1..Len(buffers) |-> SaveCanvas(buffers[i])]

\* i < len(overlay_readers) and len(overlay_readers[i].pages) > 0
ShouldMerge(i, readers) == i <= Len(readers) /\ readers[i] > 0

\* page.merge_page(overlay_readers[i].pages[0]) when ShouldMerge
MergedPage(page, i, buffers) ==
  IF ShouldMerge(i, OverlayReaders(buffers))
  THEN [page EXCEPT !.merged = TRUE, !.overlay = buffers[i]]
  ELSE page

MergePages_AddOnlyMerged(base, buffers) ==
  SelectSeq([i \in 1..Len(base) |-> MergedPage(base[i], i, buffers)],
            LAMBDA p : p.merged)

\* for i, page in enumerate(base_reader.pages): ...; writer.add_page(page)
MergePages(base, buffers) ==
  [i \in 1..Len(base) |-> MergedPage(base[i], i, buffers)]

OuterExcept_ReturnEmpty(exc) ==
  [outcome |-> "returned", error |-> "none", final_buf |-> << <<>> >>]

\* except Exception as e: print(...); raise
OuterExcept(exc) == [outcome |-> "raised", error |-> exc, final_buf |-> <<>>]

(***************************************************************************)
(* The caller's data records                                               *)
(***************************************************************************)
Request ==
  {[name |-> "Mario Rossi", amount |-> a, duration |-> m, tan |-> r, taeg |-> r] :
     a \in {1, MaxAmount}, m \in {1, 8}, r \in Rates}

\* The same records with 'payment' given, as main() builds them.
RequestWithPayment ==
  {d @@ ("payment" :> monthly_payment(d.amount, d.duration, d.tan)) : d \in Request}

NoData == [name |-> ""]

(***************************************************************************)
(* The state before a call                                                 *)
(***************************************************************************)
Idle ==
  /\ pc = "idle"
  /\ api = "none"
  /\ data = NoData
  /\ data_before = NoData
  /\ html = ""
  /\ template_name = ""
  /\ render = "none"
  /\ pdf_bytes = <<>>
  /\ overlay_buffers = <<>>
  /\ attempted = {}
  /\ outcome = "none"
  /\ error = "none"
  /\ final_buf = <<>>
  /\ ret = [exc |-> "none"]

Init ==
  /\ templates \in SUBSET TemplateFiles
  /\ images \in SUBSET ImageFiles
  /\ args = [fn |-> "none"]
  /\ Idle

(***************************************************************************)
(* The generators                                                          *)
(***************************************************************************)
\* if 'payment' not in data: data['payment'] = monthly_payment(...)
WithPayment(d) ==
  IF "payment" \in DOMAIN d
  THEN d
  ELSE d @@ ("payment" :> monthly_payment(d.amount, d.duration, d.tan))

\* html = fix_html_layout(name); return _generate_pdf_with_images(html, name, d)
\* up to the entry of _generate_pdf_with_images.  fix_html_layout is called
\* outside any try block: its FileNotFoundError reaches the caller.
LoadAndEnter(name) ==
  LET t == fix_html_layout(name, templates)
  IN IF t.exc # "none"
     THEN /\ pc' = "done"
          /\ outcome' = "raised"
          /\ error' = t.exc
          /\ html' = html
          /\ template_name' = template_name
     ELSE /\ pc' = "render"
          /\ outcome' = outcome
          /\ error' = error
          /\ html' = t.text
          /\ template_name' = name

generate_contratto_pdf ==
  /\ pc = "idle"
  /\ \E d \in Request \cup RequestWithPayment :
       /\ api' = "generate_contratto_pdf"
       /\ data_before' = d
       /\ data' = WithPayment(d)
  /\ LoadAndEnter("contrato")
  /\ UNCHANGED <<templates, images, render, pdf_bytes, overlay_buffers,
                 attempted, final_buf, args, ret>>

generate_garanzia_pdf ==
  /\ pc = "idle"
  /\ api' = "generate_garanzia_pdf"
  /\ data_before' = [name |-> "Mario Rossi"]
  /\ data' = [name |-> "Mario Rossi"]
  /\ LoadAndEnter("garanzia")
  /\ UNCHANGED <<templates, images, render, pdf_bytes, overlay_buffers,
                 attempted, final_buf, args, ret>>

generate_carta_pdf ==
  /\ pc = "idle"
  /\ \E d \in Request \cup RequestWithPayment :
       /\ api' = "generate_carta_pdf"
       /\ data_before' = d
       /\ data' = WithPayment(d)
  /\ LoadAndEnter("carta")
  /\ UNCHANGED <<templates, images, render, pdf_bytes, overlay_buffers,
                 attempted, final_buf, args, ret>>

\* _generate_pdf_with_images called directly, with any template name and the
\* text of any template.
generate_pdf_with_images ==
  /\ pc = "idle"
  /\ \E h \in TemplateFiles, name \in TemplateNames :
       /\ html' = h
       /\ template_name' = name
  /\ api' = "_generate_pdf_with_images"
  /\ data_before' = [name |-> "Mario Rossi"]
  /\ data' = [name |-> "Mario Rossi"]
  /\ pc' = "render"
  /\ UNCHANGED <<templates, images, render, pdf_bytes, overlay_buffers,
                 attempted, outcome, error, final_buf, args, ret>>

(***************************************************************************)
(* _generate_pdf_with_images: the steps                                    *)
(***************************************************************************)
\* The outer handler: the exception exc leaves the function.
Raise(exc) ==
  LET r == OuterExcept(exc)
  IN /\ pc' = "done"
     /\ outcome' = r.outcome
     /\ error' = r.error
     /\ final_buf' = r.final_buf

\* The base rendering: write_pdf fails, or yields a document whose page
\* count the content decides.
RenderBase ==
  /\ pc = "render"
  /\ \E ok \in BOOLEAN, n \in 0..MaxPages :
       IF ok
       THEN /\ render' = "ok"
            /\ pdf_bytes' = BasePdf(html, n)
            /\ pc' = "rendered"
            /\ UNCHANGED <<outcome, error, final_buf>>
       ELSE /\ render' = "failed"
            /\ pdf_bytes' = pdf_bytes
            /\ Raise("RenderingError")
  /\ UNCHANGED <<templates, images, api, data, data_before, html, template_name,
                 overlay_buffers, attempted, args, ret>>

\* Without overlay: return BytesIO(pdf_bytes)
ReturnBase ==
  /\ pc = "rendered"
  /\ ~IsOverlayVariant(template_name)
  /\ final_buf' = <<pdf_bytes>>
  /\ outcome' = "returned"
  /\ pc' = "done"
  /\ UNCHANGED <<templates, images, api, data, data_before, html, template_name,
                 render, pdf_bytes, overlay_buffers, attempted, error, args, ret>>

\* base_reader, writer and one canvas per page
OverlaySetup ==
  /\ pc = "rendered"
  /\ IsOverlayVariant(template_name)
  /\ overlay_buffers' = NewOverlayBuffers(pdf_bytes)
  /\ pc' = "logo"
  /\ UNCHANGED <<templates, images, api, data, data_before, html, template_name,
                 render, pdf_bytes, attempted, outcome, error, final_buf, args, ret>>

\* try: logo.png on page 1; except Exception
PlaceLogo ==
  /\ pc = "logo"
  /\ LET r == LogoTry(overlay_buffers, images)
     IN /\ attempted' = attempted \cup {"logo.png"}
        /\ IF r.exc = "none" \/ except_Exception(r.exc)
           THEN /\ overlay_buffers' = r.buffers
                /\ pc' = "sing_1"
                /\ UNCHANGED <<outcome, error, final_buf>>
           ELSE /\ overlay_buffers' = overlay_buffers
                /\ Raise(r.exc)
  /\ UNCHANGED <<templates, images, api, data, data_before, html, template_name,
                 render, pdf_bytes, args, ret>>

\* try: sing_1.png on page 3 if there is one; except Exception
PlaceSing1 ==
  /\ pc = "sing_1"
  /\ LET r == Sing1Try(overlay_buffers, images)
     IN /\ attempted' = IF r.opened THEN attempted \cup {"sing_1.png"} ELSE attempted
        /\ IF r.exc = "none" \/ except_Exception(r.exc)
           THEN /\ overlay_buffers' = r.buffers
                /\ pc' = "merge"
                /\ UNCHANGED <<outcome, error, final_buf>>
           ELSE /\ overlay_buffers' = overlay_buffers
                /\ Raise(r.exc)
  /\ UNCHANGED <<templates, images, api, data, data_before, html, template_name,
                 render, pdf_bytes, args, ret>>

\* Save the canvases, merge, write and return the document.
SaveAndMerge ==
  /\ pc = "merge"
  /\ final_buf' = <<MergePages(pdf_bytes, overlay_buffers)>>
  /\ outcome' = "returned"
  /\ pc' = "done"
  /\ UNCHANGED <<templates, images, api, data, data_before, html, template_name,
                 render, pdf_bytes, overlay_buffers, attempted, error, args, ret>>

Next ==
  \/ generate_contratto_pdf
  \/ generate_garanzia_pdf
  \/ generate_carta_pdf
  \/ generate_pdf_with_images
  \/ RenderBase
  \/ ReturnBase
  \/ OverlaySetup
  \/ PlaceLogo
  \/ PlaceSing1
  \/ SaveAndMerge

Spec == Init /\ [][Next]_vars

(***************************************************************************)
(* fix_html_layout called on its own, with any name                        *)
(***************************************************************************)
InitTemplate ==
  /\ templates \in SUBSET TemplateFiles
  /\ images = {}
  /\ args \in {[fn |-> "fix_html_layout", template_name |-> n] : n \in TemplateNames}
  /\ Idle

Call_fix_html_layout ==
  /\ pc = "idle"
  /\ args.fn = "fix_html_layout"
  /\ ret' = fix_html_layout(args.template_name, templates)
  /\ pc' = "done"
  /\ UNCHANGED <<templates, images, args>>
  /\ UNCHANGED callvars

NextTemplate == Call_fix_html_layout

SpecTemplate == InitTemplate /\ [][NextTemplate]_vars

(***************************************************************************)
(* monthly_payment called on its own                                       *)
(***************************************************************************)
InitPayment ==
  /\ templates = {}
  /\ images = {}
  /\ args \in {[fn |-> "monthly_payment", amount |-> a, months |-> m, annual_rate |-> r] :
                 a \in 1..MaxAmount, m \in Months, r \in Rates}
  /\ Idle

Call_monthly_payment ==
  /\ pc = "idle"
  /\ args.fn = "monthly_payment"
  /\ ret' = [exc |-> "none",
             value |-> monthly_payment(args.amount, args.months, args.annual_rate)]
  /\ pc' = "done"
  /\ UNCHANGED <<templates, images, args>>
  /\ UNCHANGED callvars

NextPayment == Call_monthly_payment

SpecPayment == InitPayment /\ [][NextPayment]_vars

(***************************************************************************)
(* The placement coordinates of any cell of the grid, rows in half rows    *)
(***************************************************************************)
InitGrid ==
  /\ templates = {}
  /\ images = {}
  /\ args \in {[fn |-> "placement", col |-> c, row2 |-> r] :
                 c \in 1..GRID_COLS, r \in 2..(2 * GRID_ROWS)}
  /\ Idle

ComputePlacement ==
  /\ pc = "idle"
  /\ args.fn = "placement"
  /\ ret' = [exc |-> "none", x |-> CellX(args.col), y |-> CellY(args.row2)]
  /\ pc' = "done"
  /\ UNCHANGED <<templates, images, args>>
  /\ UNCHANGED callvars

NextGrid == ComputePlacement

SpecGrid == InitGrid /\ [][NextGrid]_vars

(***************************************************************************)
(* Properties                                                              *)
(***************************************************************************)
OverlayNames == {"contrato", "contratto"}

\* A finished call of the overlay variant whose base document was rendered.
OverlayDone == pc = "done" /\ render = "ok" /\ template_name \in OverlayNames

HasImage(content, image) == \E p \in content : p.image = image

\* C1: in the overlay variant the returned document has exactly the pages of
\* the base document, in the same order, none dropped and none duplicated,
\* for every page count from 0 up and whatever images could be placed.
C1_PagesPreserved ==
  (OverlayDone /\ outcome = "returned") =>
    /\ Len(final_buf) = 1
    /\ Len(final_buf[1]) = Len(pdf_bytes)
    /\ \A i \in 1..Len(pdf_bytes) :
         /\ final_buf[1][i].base = i
         /\ final_buf[1][i].html = pdf_bytes[i].html

C1_Witness ==
  /\ OverlayDone
  /\ outcome = "returned"
  /\ images = {}
  /\ Len(pdf_bytes) = 3
  /\ Len(final_buf[1]) = 3

C3_PlacementFailureAbsorbed ==
  OverlayDone =>
    /\ outcome = "returned"
    /\ error = "none"
    /\ "logo.png" \in attempted
    /\ (Len(pdf_bytes) >= 3) => "sing_1.png" \in attempted
    /\ Len(final_buf) = 1
    /\ Len(final_buf[1]) = Len(pdf_bytes)
    /\ ("sing_1.png" \in images /\ Len(pdf_bytes) >= 3) =>
         HasImage(final_buf[1][3].overlay, "sing_1.png")
    /\ ("logo.png" \in images /\ Len(pdf_bytes) >= 1) =>
         HasImage(final_buf[1][1].overlay, "logo.png")

C3_Witness ==
  /\ OverlayDone
  /\ images = {"sing_1.png"}
  /\ Len(pdf_bytes) = 3
  /\ attempted = ImageFiles
  /\ outcome = "returned"
  /\ ~final_buf[1][1].merged
  /\ final_buf[1][3].merged

\* C4: for a template name that is neither 'contrato' nor 'contratto' no
\* overlay surface is ever allocated, no image is ever opened, the placement
\* and merge steps are never entered, and the call returns exactly the bytes
\* of the base renderer.
C4_NoOverlayForOtherVariants ==
  (template_name \notin OverlayNames) =>
    /\ overlay_buffers = <<>>
    /\ attempted = {}
    /\ pc \notin {"logo", "sing_1", "merge"}
    /\ (pc = "done" /\ render = "ok") =>
         /\ outcome = "returned"
         /\ final_buf = <<pdf_bytes>>
         /\ \A i \in 1..Len(pdf_bytes) : ~pdf_bytes[i].merged

C4_Witness ==
  /\ pc = "done"
  /\ render = "ok"
  /\ template_name = "carta"
  /\ Len(pdf_bytes) = 3
  /\ images = ImageFiles
  /\ final_buf = <<pdf_bytes>>

\* C5: fix_html_layout(name) returns the content of name.html when it exists;
\* when it does not and name is one of the aliases 'contrato'/'contratto' it
\* returns the content of the other alias if that exists; for any other
\* missing name it fails with FileNotFoundError and returns no content.
C5_TemplateLookup ==
  (pc = "done" /\ args.fn = "fix_html_layout") =>
    LET n == args.template_name
    IN /\ (n \in templates) => ret = [exc |-> "none", text |-> n]
       /\ (n = "contrato" /\ n \notin templates /\ "contratto" \in templates) =>
            ret = [exc |-> "none", text |-> "contratto"]
       /\ (n = "contratto" /\ n \notin templates /\ "contrato" \in templates) =>
            ret = [exc |-> "none", text |-> "contrato"]
       /\ (n \notin OverlayNames /\ n \notin templates) =>
            ret = [exc |-> "FileNotFoundError", text |-> ""]

C5_Witness ==
  /\ pc = "done"
  /\ args.fn = "fix_html_layout"
  /\ args.template_name = "contrato"
  /\ templates = {"contratto", "garanzia"}
  /\ ret.text = "contratto"

\* The template the generator api asks for, and its alias, are both missing.
TemplateMissing ==
  \/ api = "generate_contratto_pdf" /\ templates \cap OverlayNames = {}
  \/ api = "generate_garanzia_pdf" /\ "garanzia" \notin templates
  \/ api = "generate_carta_pdf" /\ "carta" \notin templates

\* C6: a call has exactly one outcome.  While it runs nothing is returned;
\* when it ends it has either returned a complete document (every page of the
\* rendered base, no error) or raised with no bytes returned.  A missing
\* template and a failed rendering always end with the error raised.
C6_SingleOutcome ==
  /\ (pc # "done") => (outcome = "none" /\ final_buf = <<>>)
  /\ (pc = "done") =>
       /\ outcome \in {"returned", "raised"}
       /\ (outcome = "raised") => (final_buf = <<>> /\ error # "none")
       /\ (outcome = "returned") =>
            /\ error = "none"
            /\ render = "ok"
            /\ Len(final_buf) = 1
            /\ Len(final_buf[1]) = Len(pdf_bytes)
       /\ TemplateMissing =>
            (outcome = "raised" /\ error = "FileNotFoundError" /\ render = "none")
       /\ (render = "failed") => (outcome = "raised" /\ error = "RenderingError")

C6_Witness ==
  /\ pc = "done"
  /\ api = "generate_carta_pdf"
  /\ render = "failed"
  /\ outcome = "raised"
  /\ final_buf = <<>>

\* principal / months to 2 decimals, an exact half rounded up; in cents.
RoundHalfUp(num, den) == (200 * num + den) \div (2 * den)

\* C7: monthly_payment(principal, months, 0) is principal / months rounded to
\* 2 decimal places with round-half-up.
C7_RoundHalfUp ==
  (pc = "done" /\ args.fn = "monthly_payment" /\ args.annual_rate = 0) =>
    ret.value = RoundHalfUp(args.amount, args.months)

\* C8: the placement of cell (column, row) is x = (column - 1) * 210/25 mm,
\* y = 297 - row * 297/35 mm; cell (1, 1) maps to (0, 297 - 297/35), cell
\* (25, 35) to (24 * 210/25, 0), and every cell of the grid to a point with
\* 0 <= x < 210 and 0 <= y < 297.  Rows are counted in half rows (row2).
C8_GridMapping ==
  (pc = "done" /\ args.fn = "placement") =>
    /\ ret.x * 25 = (args.col - 1) * 210 * PerMm
    /\ ret.y * 2 * 35 = (2 * 35 * 297 - args.row2 * 297) * PerMm
    /\ (args.col = 1 /\ args.row2 = 2) =>
         (ret.x = 0 /\ ret.y * 35 = (35 * 297 - 297) * PerMm)
    /\ (args.col = 25 /\ args.row2 = 70) =>
         (ret.x * 25 = 24 * 210 * PerMm /\ ret.y = 0)
    /\ 0 <= ret.x /\ ret.x < 210 * PerMm
    /\ 0 <= ret.y /\ ret.y < 297 * PerMm

C8_Witness ==
  /\ pc = "done"
  /\ args.fn = "placement"
  /\ args.col = 25
  /\ args.row2 = 70
  /\ ret.y = 0
  /\ ret.x > 0

\* C9: after generate_contratto_pdf(data) or generate_carta_pdf(data) has
\* returned or raised, the caller's data holds the same keys and values as
\* before the call.
C9_DataUnchanged ==
  (pc = "done" /\ api \in {"generate_contratto_pdf", "generate_carta_pdf"}) =>
    data = data_before

====
